---- MODULE Spec2Model ----
(***************************************************************************)
(* Model of the swarm connection metrics (p2p/net/swarm/swarm_metrics.go)  *)
(* and of the QUIC transport's functional options (package libp2pquic).    *)
(*                                                                         *)
(* Independent parts, each with its own specification:                     *)
(*   SpecBuckets  exponentialDistribution, one loop iteration per step     *)
(*   SpecRec      the four recorders called one after another              *)
(*   SpecConc     concurrent calls of recordConnectionOpened, line by line *)
(*   SpecCfg      config.apply over a sequence of options                  *)
(***************************************************************************)
EXTENDS Integers, Sequences, FiniteSets, TLC

VARIABLES
    \* exponentialDistribution
    bMin, bMax,     \* the arguments min, max
    d,              \* the loop variable d
    v,              \* the slice v
    bpc,            \* "loop" while in the for statement, "done" after return
    \* the recorders, sequential
    engine,         \* observations handed to stats.RecordWithTags, in order
    last,           \* arguments of the most recent recorder call
    \* recordConnectionOpened, concurrent
    cArgs,          \* per goroutine: the arguments dir, cs
    cTags,          \* per goroutine: the local slice tags
    cpc,            \* per goroutine: the line about to execute
    cEngine,        \* observations received by the aggregation engine
    \* config.apply
    cfg,            \* the receiver *config
    cfg0,           \* the configuration apply was called on
    opts,           \* the argument opts
    idx,            \* position of the range loop in opts
    invoked,        \* options invoked so far, in order
    ret,            \* the returned error
    apc             \* "loop" while in apply, "returned" after

bvars == <<bMin, bMax, d, v, bpc>>
rvars == <<engine, last>>
cvars == <<cArgs, cTags, cpc, cEngine>>
kvars == <<cfg, cfg0, opts, idx, invoked, ret, apc>>
vars  == <<bvars, rvars, cvars, kvars>>

Idle == "idle"

BIdle == bMin = 0 /\ bMax = 0 /\ d = 0 /\ v = <<>> /\ bpc = Idle
NoCall == [op |-> "none"]
RIdle == engine = <<>> /\ last = NoCall
CIdle == cArgs = <<>> /\ cTags = <<>> /\ cpc = <<>> /\ cEngine = <<>>
KIdle == /\ cfg = Idle /\ cfg0 = Idle /\ opts = <<>> /\ idx = 0
         /\ invoked = <<>> /\ ret = Idle /\ apc = Idle

(***************************************************************************)
(* exponentialDistribution(min, max float64) []float64                     *)
(*                                                                         *)
(* float64 values are modelled by the integers -MaxFloat..MaxFloat with    *)
(* the two infinities PosInf and NegInf; doubling is exact until it leaves *)
(* the finite range and then gives an infinity, as IEEE 754 does.          *)
(***************************************************************************)
MaxFloat == 2000000000
PosInf == MaxFloat + 1
NegInf == -(MaxFloat + 1)

\* cap on len(v): a loop that never ends would otherwise append forever
MaxLen == 33

MaxMin == 5
MaxMax == 6

\* a loop step that halves instead of doubling
Halve(x) == x \div 2

\* 2*x and d *= 2
Double(x) ==
    IF x > MaxFloat \div 2 THEN PosInf
    ELSE IF x < -(MaxFloat \div 2) THEN NegInf
    ELSE 2 * x

\* a loop condition that also admits the term equal to 2*max
LoopCondInclusive(x, max) == x <= Double(max)

\* a loop condition that compares with max instead of 2*max
LoopCondMax(x, max) == x < max

\* the condition of the for statement, d < 2*max
LoopCond(x, max) == x < Double(max)

HourMs == 3600000
WeekMs == 7 * 24 * HourMs
ConnDurationMin == 250
HandshakeLatencyMin == 1
HandshakeLatencyMax == 60 * 1000

\* the two calls of the package's variable initialisation
CoreCalls == { <<ConnDurationMin, WeekMs>>, <<HandshakeLatencyMin, HandshakeLatencyMax>> }

\* the worked example min=250, max=500
ExampleCall == <<ConnDurationMin, 2 * ConnDurationMin>>

BucketInputs == ((-2 .. MaxMin) \X (-2 .. MaxMax)) \cup CoreCalls \cup {ExampleCall}

InitBuckets ==
    /\ \E in \in BucketInputs :
          /\ bMin = in[1]
          /\ bMax = in[2]
          /\ d = in[1]
    /\ v = <<>>
    /\ bpc = "loop"
    /\ RIdle /\ CIdle /\ KIdle

\* for d := min; d < 2*max; d *= 2 { v = append(v, d) }
LoopBody ==
    /\ bpc = "loop"
    /\ LoopCond(d, bMax)
    /\ Len(v) < MaxLen
    /\ v' = Append(v, d)
    /\ d' = Double(d)
    /\ UNCHANGED <<bMin, bMax, bpc, rvars, cvars, kvars>>

\* the loop condition fails: return v
LoopExit ==
    /\ bpc = "loop"
    /\ ~LoopCond(d, bMax)
    /\ bpc' = "done"
    /\ UNCHANGED <<bMin, bMax, d, v, rvars, cvars, kvars>>

NextBuckets == LoopBody \/ LoopExit

SpecBuckets == InitBuckets /\ [][NextBuckets]_vars

\* a running goroutine keeps executing its loop
FairSpecBuckets == SpecBuckets /\ WF_vars(NextBuckets)

(***************************************************************************)
(* Properties of exponentialDistribution                                   *)
(***************************************************************************)
\* the term m * 2^k
RECURSIVE Term(_, _)
Term(m, k) == IF k = 0 THEN m ELSE 2 * Term(m, k - 1)

\* m * 2^k < bound, for m > 0, computed without leaving the finite range
RECURSIVE TermBelow(_, _, _)
TermBelow(m, k, bound) ==
    IF k = 0 THEN m < bound
    ELSE m <= MaxFloat \div 2 /\ TermBelow(2 * m, k - 1, bound)

\* the number of terms m * 2^k, k >= 0, strictly below bound
TermCount(m, bound) == Cardinality({ k \in 0 .. MaxLen : TermBelow(m, k, bound) })

StrictlyIncreasing(s) == \A i \in 1 .. Len(s) - 1 : s[i] < s[i + 1]

Returned == bpc = "done"

\* C5 as stated: for positive min < max the result is strictly increasing,
\* starts at min, and ends with the first power-of-two multiple of min that
\* is greater than or equal to 2*max.
C5_Original ==
    (Returned /\ 0 < bMin /\ bMin < bMax) =>
        /\ StrictlyIncreasing(v)
        /\ Len(v) >= 1
        /\ v[1] = bMin
        /\ v[Len(v)] = Term(bMin, Len(v) - 1)
        /\ v[Len(v)] >= 2 * bMax
        /\ (Len(v) > 1 => v[Len(v) - 1] < 2 * bMax)

\* C5 amended: for positive min < max the result is strictly increasing,
\* starts at min, and ends with the largest power-of-two multiple of min that
\* is strictly less than 2*max (the next multiple is the first one >= 2*max).
C5_LastBelowTwiceMax ==
    (Returned /\ 0 < bMin /\ bMin < bMax) =>
        /\ StrictlyIncreasing(v)
        /\ Len(v) >= 1
        /\ v[1] = bMin
        /\ v[Len(v)] = Term(bMin, Len(v) - 1)
        /\ v[Len(v)] < 2 * bMax
        /\ v[Len(v)] >= bMax

C5_Witness ==
    Returned /\ <<bMin, bMax>> = <<HandshakeLatencyMin, HandshakeLatencyMax>> /\ Len(v) = 17

\* C6: for positive min and max the result is exactly the terms min*2^k,
\* k = 0, 1, 2, ..., that are strictly less than 2*max, in increasing order;
\* min=250, max=500 gives [250, 500].
C6_ExactlyTermsBelowTwiceMax ==
    /\ (Returned /\ bMin > 0 /\ bMax > 0) =>
          /\ Len(v) = TermCount(bMin, 2 * bMax)
          /\ \A i \in 1 .. Len(v) : v[i] = Term(bMin, i - 1) /\ v[i] < 2 * bMax
    /\ (Returned /\ <<bMin, bMax>> = ExampleCall) =>
          v = <<ConnDurationMin, 2 * ConnDurationMin>>

C6_Witness == Returned /\ <<bMin, bMax>> = ExampleCall /\ Len(v) = 2

\* C7: the loop terminates for every min > 0, in particular for the two calls
\* the package makes, which both pass a positive min; with min <= 0 and
\* max > 0 it never terminates.
C7_Termination ==
    /\ [](<<bMin, bMax>> \in CoreCalls => bMin > 0)
    /\ (bMin > 0) ~> Returned
    /\ []((bMin <= 0 /\ bMax > 0) => ~Returned)

C7_Witness == Returned /\ <<bMin, bMax>> = <<ConnDurationMin, WeekMs>> /\ Len(v) = 23

\* C8 as stated: for every min > 0 and any max the result has at least one
\* element.
C8_Original == (Returned /\ bMin > 0) => Len(v) >= 1

\* C8 amended: for every min > 0 the result has at least one element exactly
\* when min < 2*max; for min >= 2*max it is empty.
C8_NonEmptyIffBelowTwiceMax ==
    (Returned /\ bMin > 0) => (Len(v) >= 1 <=> bMin < 2 * bMax)

C8_Witness == Returned /\ bMin > 0 /\ bMax > 0 /\ bMin >= 2 * bMax /\ v = <<>>

(***************************************************************************)
(* Measures, tag keys and views                                            *)
(***************************************************************************)
metricNamespace == "swarm/"

connsOpened          == "swarm/connections_opened"
connsClosed          == "swarm/connections_closed"
connDuration         == "swarm/connection_duration"
connHandshakeLatency == "swarm/handshake_latency"

directionTag == "dir"
transportTag == "transport"
securityTag  == "security"
muxerTag     == "muxer"

connOpenView ==
    [Measure |-> connsOpened, TagKeys |-> <<directionTag, transportTag, securityTag, muxerTag>>]
connClosedView ==
    [Measure |-> connsClosed, TagKeys |-> <<directionTag, transportTag, securityTag, muxerTag>>]
connDurationView ==
    [Measure |-> connDuration, TagKeys |-> <<directionTag, transportTag, securityTag, muxerTag>>]
connHandshakeLatencyView ==
    [Measure |-> connHandshakeLatency, TagKeys |-> <<transportTag, securityTag, muxerTag>>]

DefaultViews == <<connOpenView, connClosedView, connDurationView, connHandshakeLatencyView>>

(***************************************************************************)
(* Inputs of the recorders                                                 *)
(***************************************************************************)
\* network.Direction
DirInbound == 1
DirOutbound == 2
MaxDir == 3
Directions == 0 .. MaxDir

\* network.ConnectionState; "" is the empty string
ConnStates ==
    [Transport : {"", "tcp"}, Security : {"", "tls"}, StreamMultiplexer : {"", "yamux"}]

\* time.Duration values, in nanoseconds
NanosPerMilli == 1000000
Durations == {0, NanosPerMilli - 1, 1500 * NanosPerMilli, -(3 * NanosPerMilli) \div 2}

\* time.Duration.Milliseconds: integer division, truncating toward zero
Milliseconds(t) ==
    IF t >= 0 THEN t \div NanosPerMilli ELSE -((-t) \div NanosPerMilli)

(***************************************************************************)
(* Tagging                                                                 *)
(***************************************************************************)
\* tag.Upsert(k, val): a mutator that sets key k to val
Upsert(k, val) == <<k, val>>

getDirection(dir) ==
    CASE dir = DirOutbound -> "outbound"
      [] dir = DirInbound  -> "inbound"
      [] OTHER             -> "unknown"

\* a tagger that sets the security and muxer tags unconditionally
appendConnectionStateAlways(tags, cs) ==
    LET t1 == IF cs.Transport = ""
              THEN Append(tags, Upsert(transportTag, "unknown"))
              ELSE Append(tags, Upsert(transportTag, cs.Transport))
        t2 == Append(t1, Upsert(securityTag, cs.Security))
    IN  Append(t2, Upsert(muxerTag, cs.StreamMultiplexer))

\* a tagger that also sets the direction tag, to "unknown"
appendConnectionStateWithDir(tags, cs) ==
    LET t0 == Append(tags, Upsert(directionTag, "unknown"))
        t1 == IF cs.Transport = ""
              THEN Append(t0, Upsert(transportTag, "unknown"))
              ELSE Append(t0, Upsert(transportTag, cs.Transport))
        t2 == IF cs.Security # ""
              THEN Append(t1, Upsert(securityTag, cs.Security))
              ELSE t1
    IN  IF cs.StreamMultiplexer # ""
        THEN Append(t2, Upsert(muxerTag, cs.StreamMultiplexer))
        ELSE t2

appendConnectionState(tags, cs) ==
    LET t1 == IF cs.Transport = ""
              THEN Append(tags, Upsert(transportTag, "unknown"))
              ELSE Append(tags, Upsert(transportTag, cs.Transport))
        t2 == IF cs.Security # ""
              THEN Append(t1, Upsert(securityTag, cs.Security))
              ELSE t1
    IN  IF cs.StreamMultiplexer # ""
        THEN Append(t2, Upsert(muxerTag, cs.StreamMultiplexer))
        ELSE t2

\* measure.M(value)
M(measure, value) == [measure |-> measure, value |-> value]

\* stats.RecordWithTags(context.Background(), tags, m): the engine receives
\* one observation of m together with the mutators
RecordWithTags(eng, tags, m) ==
    Append(eng, [measure |-> m.measure, value |-> m.value, tags |-> tags])

\* the tag map the mutators build on the empty background context
RECURSIVE TagMap(_)
TagMap(tags) ==
    IF tags = <<>> THEN <<>>
    ELSE LET n    == Len(tags)
             rest == TagMap(SubSeq(tags, 1, n - 1))
             k    == tags[n][1]
         IN  [x \in (DOMAIN rest) \cup {k} |-> IF x = k THEN tags[n][2] ELSE rest[x]]

(***************************************************************************)
(* The recorders                                                           *)
(***************************************************************************)
recordConnectionOpened(eng, dir, cs) ==
    LET tags0 == <<>>
        tags1 == Append(tags0, Upsert(directionTag, getDirection(dir)))
        tags2 == appendConnectionState(tags1, cs)
    IN  RecordWithTags(eng, tags2, M(connsOpened, 1))

\* a recorder that submits its observation twice
recordConnectionClosedTwice(eng, dir, cs) ==
    LET tags0 == <<>>
        tags1 == Append(tags0, Upsert(directionTag, getDirection(dir)))
        tags2 == appendConnectionState(tags1, cs)
        once  == RecordWithTags(eng, tags2, M(connsClosed, 1))
    IN  RecordWithTags(once, tags2, M(connsClosed, 1))

recordConnectionClosed(eng, dir, cs) ==
    LET tags0 == <<>>
        tags1 == Append(tags0, Upsert(directionTag, getDirection(dir)))
        tags2 == appendConnectionState(tags1, cs)
    IN  RecordWithTags(eng, tags2, M(connsClosed, 1))

recordConnectionDuration(eng, dir, t, cs) ==
    LET tags0 == <<>>
        tags1 == Append(tags0, Upsert(directionTag, getDirection(dir)))
        tags2 == appendConnectionState(tags1, cs)
    IN  RecordWithTags(eng, tags2, M(connDuration, Milliseconds(t)))

recordHandshakeLatency(eng, t, cs) ==
    LET tags0 == <<>>
        tags1 == appendConnectionState(tags0, cs)
    IN  RecordWithTags(eng, tags1, M(connHandshakeLatency, Milliseconds(t)))

MaxCalls == 1

InitRec ==
    /\ engine = <<>>
    /\ last = NoCall
    /\ BIdle /\ CIdle /\ KIdle

RecordConnectionOpened ==
    /\ Len(engine) < MaxCalls
    /\ \E dir \in Directions, cs \in ConnStates :
          /\ engine' = recordConnectionOpened(engine, dir, cs)
          /\ last' = [op |-> "recordConnectionOpened", before |-> Len(engine),
                      dir |-> dir, cs |-> cs]
    /\ UNCHANGED <<bvars, cvars, kvars>>

RecordConnectionClosed ==
    /\ Len(engine) < MaxCalls
    /\ \E dir \in Directions, cs \in ConnStates :
          /\ engine' = recordConnectionClosed(engine, dir, cs)
          /\ last' = [op |-> "recordConnectionClosed", before |-> Len(engine),
                      dir |-> dir, cs |-> cs]
    /\ UNCHANGED <<bvars, cvars, kvars>>

RecordConnectionDuration ==
    /\ Len(engine) < MaxCalls
    /\ \E dir \in Directions, t \in Durations, cs \in ConnStates :
          /\ engine' = recordConnectionDuration(engine, dir, t, cs)
          /\ last' = [op |-> "recordConnectionDuration", before |-> Len(engine),
                      dir |-> dir, t |-> t, cs |-> cs]
    /\ UNCHANGED <<bvars, cvars, kvars>>

RecordHandshakeLatency ==
    /\ Len(engine) < MaxCalls
    /\ \E t \in Durations, cs \in ConnStates :
          /\ engine' = recordHandshakeLatency(engine, t, cs)
          /\ last' = [op |-> "recordHandshakeLatency", before |-> Len(engine),
                      t |-> t, cs |-> cs]
    /\ UNCHANGED <<bvars, cvars, kvars>>

NextRec ==
    \/ RecordConnectionOpened
    \/ RecordConnectionClosed
    \/ RecordConnectionDuration
    \/ RecordHandshakeLatency

SpecRec == InitRec /\ [][NextRec]_vars

(***************************************************************************)
(* Properties of the recorders                                             *)
(***************************************************************************)
LastObs == engine[Len(engine)]

TakesDirection(op) ==
    op \in {"recordConnectionOpened", "recordConnectionClosed", "recordConnectionDuration"}

\* the tag set the tagger is to build for direction dir and state cs
ExpectedTagKeys(cs) ==
    {directionTag, transportTag}
        \cup (IF cs.Security = "" THEN {} ELSE {securityTag})
        \cup (IF cs.StreamMultiplexer = "" THEN {} ELSE {muxerTag})

ExpectedTagValue(k, dir, cs) ==
    CASE k = directionTag ->
            (IF dir = DirOutbound THEN "outbound"
             ELSE IF dir = DirInbound THEN "inbound" ELSE "unknown")
      [] k = transportTag ->
            (IF cs.Transport = "" THEN "unknown" ELSE cs.Transport)
      [] k = securityTag -> cs.Security
      [] k = muxerTag -> cs.StreamMultiplexer

\* C1: the tag set built by recordConnectionOpened, recordConnectionClosed
\* and recordConnectionDuration is exactly: direction "outbound", "inbound"
\* or "unknown", never unset; transport as reported, or "unknown" when
\* empty; security iff the security field is non-empty; muxer iff the
\* stream-multiplexer field is non-empty.
C1_TagSetExact ==
    TakesDirection(last.op) =>
        LET tm == TagMap(LastObs.tags)
        IN  /\ DOMAIN tm = ExpectedTagKeys(last.cs)
            /\ \A k \in DOMAIN tm : tm[k] = ExpectedTagValue(k, last.dir, last.cs)
            /\ tm[directionTag] \in {"outbound", "inbound", "unknown"}

C1_Witness ==
    /\ last.op = "recordConnectionClosed"
    /\ last.dir = 0
    /\ last.cs = [Transport |-> "", Security |-> "", StreamMultiplexer |-> ""]
    /\ TagMap(LastObs.tags) = [k \in {directionTag, transportTag} |-> "unknown"]

KeysOf(tags) == { tags[i][1] : i \in 1 .. Len(tags) }

ViewKeys(measure) ==
    UNION { { DefaultViews[i].TagKeys[j] : j \in 1 .. Len(DefaultViews[i].TagKeys) } :
            i \in { n \in 1 .. Len(DefaultViews) : DefaultViews[n].Measure = measure } }

\* C2: every emitted observation carries each tag key at most once and only
\* keys declared by the view of its measure; handshake_latency never
\* carries the direction key.
C2_KeysOnceAndDeclared ==
    \A n \in 1 .. Len(engine) :
        LET o == engine[n]
        IN  /\ \A i, j \in 1 .. Len(o.tags) : i # j => o.tags[i][1] # o.tags[j][1]
            /\ KeysOf(o.tags) \subseteq ViewKeys(o.measure)
            /\ o.measure = connHandshakeLatency => directionTag \notin KeysOf(o.tags)

C2_Witness ==
    /\ last.op = "recordHandshakeLatency"
    /\ KeysOf(LastObs.tags) = {transportTag, securityTag, muxerTag}
    /\ Len(LastObs.tags) = 3

MeasureOf(op) ==
    CASE op = "recordConnectionOpened"   -> connsOpened
      [] op = "recordConnectionClosed"   -> connsClosed
      [] op = "recordConnectionDuration" -> connDuration
      [] op = "recordHandshakeLatency"   -> connHandshakeLatency

\* ms is t in whole milliseconds, the fraction dropped
WholeMilliseconds(t, ms) ==
    IF t >= 0
    THEN ms >= 0 /\ ms * NanosPerMilli <= t /\ t < (ms + 1) * NanosPerMilli
    ELSE ms <= 0 /\ ms * NanosPerMilli >= t /\ t > (ms - 1) * NanosPerMilli

\* C3: each call of a recorder submits exactly one observation, to its own
\* measure: value 1 for recordConnectionOpened and recordConnectionClosed,
\* the elapsed time in whole milliseconds (a sub-millisecond duration gives
\* 0) for recordConnectionDuration and recordHandshakeLatency.
C3_OneObservationPerCall ==
    (last.op # "none") =>
        /\ Len(engine) = last.before + 1
        /\ LastObs.measure = MeasureOf(last.op)
        /\ last.op \in {"recordConnectionOpened", "recordConnectionClosed"} =>
              LastObs.value = 1
        /\ last.op \in {"recordConnectionDuration", "recordHandshakeLatency"} =>
              /\ WholeMilliseconds(last.t, LastObs.value)
              /\ (0 <= last.t /\ last.t < NanosPerMilli) => LastObs.value = 0

C3_Witness ==
    /\ last.op = "recordConnectionDuration"
    /\ last.t = NanosPerMilli - 1
    /\ Len(engine) = last.before + 1
    /\ LastObs.value = 0

(***************************************************************************)
(* recordConnectionOpened called from several goroutines at once, one      *)
(* source line per step                                                    *)
(***************************************************************************)
NProcs == 2
Procs == 1 .. NProcs

\* the calls the goroutines choose from; their tag sets are pairwise distinct
ConcCalls ==
    [dir : {DirInbound, DirOutbound},
     cs  : {[Transport |-> "tcp", Security |-> "tls", StreamMultiplexer |-> "yamux"],
            [Transport |-> "quic", Security |-> "", StreamMultiplexer |-> ""],
            [Transport |-> "", Security |-> "", StreamMultiplexer |-> ""]}]

\* the tag set a call is to carry
TagsOfCall(c) ==
    appendConnectionState(<<Upsert(directionTag, getDirection(c.dir))>>, c.cs)

\* tags kept in one slice shared by all goroutines
SetTagsShared(all, p, t) == [q \in DOMAIN all |-> t]

\* tags is a local variable of the call: goroutine p writes its own slice
SetTags(all, p, t) == [all EXCEPT ![p] = t]

InitConc ==
    /\ cArgs \in [Procs -> ConcCalls]
    /\ \A p, q \in Procs : p # q => TagsOfCall(cArgs[p]) # TagsOfCall(cArgs[q])
    /\ cTags = [p \in Procs |-> <<>>]
    /\ cpc = [p \in Procs |-> "make"]
    /\ cEngine = <<>>
    /\ BIdle /\ RIdle /\ KIdle

\* tags := make([]tag.Mutator, 0, 4)
MakeTags(p) ==
    /\ cpc[p] = "make"
    /\ cTags' = SetTags(cTags, p, <<>>)
    /\ cpc' = [cpc EXCEPT ![p] = "direction"]
    /\ UNCHANGED <<cArgs, cEngine, bvars, rvars, kvars>>

\* tags = append(tags, tag.Upsert(directionTag, getDirection(dir)))
AppendDirection(p) ==
    /\ cpc[p] = "direction"
    /\ cTags' = SetTags(cTags, p,
                    Append(cTags[p], Upsert(directionTag, getDirection(cArgs[p].dir))))
    /\ cpc' = [cpc EXCEPT ![p] = "state"]
    /\ UNCHANGED <<cArgs, cEngine, bvars, rvars, kvars>>

\* tags = appendConnectionState(tags, cs)
AppendState(p) ==
    /\ cpc[p] = "state"
    /\ cTags' = SetTags(cTags, p, appendConnectionState(cTags[p], cArgs[p].cs))
    /\ cpc' = [cpc EXCEPT ![p] = "record"]
    /\ UNCHANGED <<cArgs, cEngine, bvars, rvars, kvars>>

\* stats.RecordWithTags(context.Background(), tags, connsOpened.M(1))
Record(p) ==
    /\ cpc[p] = "record"
    /\ cEngine' = RecordWithTags(cEngine, cTags[p], M(connsOpened, 1))
    /\ cpc' = [cpc EXCEPT ![p] = "done"]
    /\ UNCHANGED <<cArgs, cTags, bvars, rvars, kvars>>

NextConc ==
    \E p \in Procs :
        \/ MakeTags(p)
        \/ AppendDirection(p)
        \/ AppendState(p)
        \/ Record(p)

SpecConc == InitConc /\ [][NextConc]_vars

(***************************************************************************)
(* Properties of concurrent recording                                      *)
(***************************************************************************)
Recorded(p) == cpc[p] = "done"

\* C4: under any interleaving of N concurrent calls of
\* recordConnectionOpened with distinct tag sets the engine receives exactly
\* one observation per completed call, carrying that call's own tag set:
\* none is lost, duplicated, or tagged with another call's tags.
C4_OneObservationPerConcurrentCall ==
    /\ Len(cEngine) = Cardinality({ p \in Procs : Recorded(p) })
    /\ \A p \in Procs :
          Cardinality({ n \in 1 .. Len(cEngine) : cEngine[n].tags = TagsOfCall(cArgs[p]) })
              = (IF Recorded(p) THEN 1 ELSE 0)
    /\ \A n \in 1 .. Len(cEngine) :
          cEngine[n].measure = connsOpened /\ cEngine[n].value = 1

\* one call has built its tags and not yet recorded while another call has
\* already delivered its observation
C4_Witness ==
    /\ cpc[1] = "record"
    /\ cTags[1] = TagsOfCall(cArgs[1])
    /\ Recorded(NProcs)
    /\ Len(cEngine) >= 1
    /\ cEngine[1].tags = TagsOfCall(cArgs[NProcs])

(***************************************************************************)
(* package libp2pquic: config and its options                              *)
(***************************************************************************)
Nil == "nil"

Configs == [disableReuseport : BOOLEAN, disableDraft29 : BOOLEAN, metrics : BOOLEAN]

\* the result of invoking an Option: the configuration it leaves, the error
Result(c, e) == [cfg |-> c, err |-> e]

DisableReuseport(c) == Result([c EXCEPT !.disableReuseport = TRUE], Nil)

\* an option that sets the field of its neighbour
DisableDraft29WrongField(c) == Result([c EXCEPT !.disableReuseport = TRUE], Nil)

DisableDraft29(c) == Result([c EXCEPT !.disableDraft29 = TRUE], Nil)

WithMetrics(c) == Result([c EXCEPT !.metrics = TRUE], Nil)

\* Option is any func(*config) error; besides the three above, two options
\* a caller may pass that fail: one before touching the configuration, one
\* after setting a field
FailEarly(c) == Result(c, "errEarly")
FailLate(c) == Result([c EXCEPT !.metrics = TRUE], "errLate")

ConcreteOptions == {"DisableReuseport", "DisableDraft29", "WithMetrics"}
Options == ConcreteOptions \cup {"FailEarly", "FailLate"}

\* opt(cfg)
Invoke(opt, c) ==
    CASE opt = "DisableReuseport" -> DisableReuseport(c)
      [] opt = "DisableDraft29"   -> DisableDraft29(c)
      [] opt = "WithMetrics"      -> WithMetrics(c)
      [] opt = "FailEarly"        -> FailEarly(c)
      [] opt = "FailLate"         -> FailLate(c)

MaxOpts == 3

OptSeqs == UNION { [1 .. n -> Options] : n \in 0 .. MaxOpts }

InitCfg ==
    /\ cfg0 \in Configs
    /\ cfg = cfg0
    /\ opts \in OptSeqs
    /\ idx = 1
    /\ invoked = <<>>
    /\ ret = Idle
    /\ apc = "loop"
    /\ BIdle /\ RIdle /\ CIdle

\* an apply that goes on to the next option after an error
ApplyErrIgnored(r) == FALSE

\* if err := opt(cfg); err != nil
ApplyErr(r) == r.err # Nil

\* one iteration of the range loop whose option returns nil
ApplyOptionOk ==
    /\ apc = "loop"
    /\ idx <= Len(opts)
    /\ LET r == Invoke(opts[idx], cfg)
       IN  /\ ~ApplyErr(r)
           /\ cfg' = r.cfg
           /\ invoked' = Append(invoked, opts[idx])
           /\ idx' = idx + 1
    /\ UNCHANGED <<cfg0, opts, ret, apc, bvars, rvars, cvars>>

\* one iteration of the range loop whose option returns an error: return err
ApplyOptionErr ==
    /\ apc = "loop"
    /\ idx <= Len(opts)
    /\ LET r == Invoke(opts[idx], cfg)
       IN  /\ ApplyErr(r)
           /\ cfg' = r.cfg
           /\ invoked' = Append(invoked, opts[idx])
           /\ ret' = r.err
           /\ apc' = "returned"
    /\ UNCHANGED <<cfg0, opts, idx, bvars, rvars, cvars>>

\* the range is exhausted: return nil
ApplyReturnNil ==
    /\ apc = "loop"
    /\ idx > Len(opts)
    /\ ret' = Nil
    /\ apc' = "returned"
    /\ UNCHANGED <<cfg, cfg0, opts, idx, invoked, bvars, rvars, cvars>>

NextCfg == ApplyOptionOk \/ ApplyOptionErr \/ ApplyReturnNil

SpecCfg == InitCfg /\ [][NextCfg]_vars

(***************************************************************************)
(* Properties of config.apply                                              *)
(***************************************************************************)
ApplyReturned == apc = "returned"

Occurs(opt, seq) == \E i \in 1 .. Len(seq) : seq[i] = opt

\* the configuration reached from c when exactly the options of seq ran
FieldsAfter(c, seq) ==
    [disableReuseport |-> c.disableReuseport \/ Occurs("DisableReuseport", seq),
     disableDraft29   |-> c.disableDraft29 \/ Occurs("DisableDraft29", seq),
     metrics          |-> c.metrics \/ Occurs("WithMetrics", seq) \/ Occurs("FailLate", seq)]

\* C9: from any configuration, applying any finite sequence of
\* DisableReuseport, DisableDraft29 and WithMetrics returns no error and
\* yields a configuration that depends only on the set of options applied:
\* a field is true if its option occurs and otherwise keeps its prior value
\* (so repeating an option or permuting the options changes nothing).
C9_DependsOnlyOnOptionSet ==
    (ApplyReturned /\ \A i \in 1 .. Len(opts) : opts[i] \in ConcreteOptions) =>
        /\ ret = Nil
        /\ cfg.disableReuseport = (cfg0.disableReuseport \/ Occurs("DisableReuseport", opts))
        /\ cfg.disableDraft29 = (cfg0.disableDraft29 \/ Occurs("DisableDraft29", opts))
        /\ cfg.metrics = (cfg0.metrics \/ Occurs("WithMetrics", opts))

C9_Witness ==
    /\ ApplyReturned
    /\ opts = <<"WithMetrics", "DisableReuseport", "WithMetrics">>
    /\ cfg0 = [disableReuseport |-> FALSE, disableDraft29 |-> FALSE, metrics |-> FALSE]
    /\ cfg = [disableReuseport |-> TRUE, disableDraft29 |-> FALSE, metrics |-> TRUE]
    /\ ret = Nil

\* the error an option returns
ErrorOf(opt) ==
    CASE opt = "FailEarly" -> "errEarly"
      [] opt = "FailLate"  -> "errLate"
      [] OTHER             -> Nil

\* C10: apply invokes the options in the order given; if an option returns
\* an error, apply returns that error at once, invokes no later option and
\* leaves the fields set so far as they are (no rollback); if none returns an
\* error, apply returns nil after invoking every option.
C10_ErrorStopsApply ==
    /\ Len(invoked) <= Len(opts)
    /\ invoked = SubSeq(opts, 1, Len(invoked))
    /\ \A i \in 1 .. Len(invoked) - 1 : ErrorOf(invoked[i]) = Nil
    /\ cfg = FieldsAfter(cfg0, invoked)
    /\ ApplyReturned =>
          IF \E i \in 1 .. Len(opts) : ErrorOf(opts[i]) # Nil
          THEN /\ invoked # <<>>
               /\ ret = ErrorOf(invoked[Len(invoked)])
               /\ ret # Nil
          ELSE /\ ret = Nil
               /\ invoked = opts

C10_Witness ==
    /\ ApplyReturned
    /\ opts = <<"DisableReuseport", "FailEarly", "WithMetrics">>
    /\ cfg0 = [disableReuseport |-> FALSE, disableDraft29 |-> FALSE, metrics |-> FALSE]
    /\ invoked = <<"DisableReuseport", "FailEarly">>
    /\ ret = "errEarly"
    /\ cfg = [disableReuseport |-> TRUE, disableDraft29 |-> FALSE, metrics |-> FALSE]

====
